---- MODULE Spec2Model ----
(***************************************************************************)
(* Model of GethService (src/src/store/client/gethService.js): the node    *)
(* lifecycle controller, its event listeners on the geth collaborator, the *)
(* peer-count poller and the syncing / newHeads subscription handling.     *)
(*                                                                         *)
(* The service runs on the JavaScript event loop: every handler runs to    *)
(* completion, and the only suspension points are RPC round trips, the     *)
(* 2000 ms settle timeout and the 3000 ms interval.  Each action below is  *)
(* one such run-to-completion step.                                        *)
(***************************************************************************)
EXTENDS Integers, Sequences, FiniteSets, Bags, TLC

\* Number of external inputs (start, stop, collaborator events, feed
\* notifications, interval ticks) in one behaviour.
MaxInputs == 4

\* null / undefined of a subscription id or interval handle field.
Null == 0

VARIABLES
    gethRunning,            \* the collaborator's process state (geth.start / geth.stop)
    peerCountInterval,      \* this.peerCountInterval: id of the last setInterval
    intervals,              \* interval timers that have been set and not cleared
    nextInterval,           \* next id setInterval returns
    listeners,              \* geth's lifecycle listeners: [ev, fn, n]
    subListeners,           \* geth's listeners keyed by subscription id: [tok, fn, n, kind]
    syncingSubscriptionId,  \* this.syncingSubscriptionId
    newHeadsSubscriptionId, \* this.newHeadsSubscriptionId
    subs,                   \* subs[i]: the feed of subscription id i returned by the node
    unsubscribed,           \* ids an eth_unsubscribe request has been issued for
    settle,                 \* bag of pending setTimeout callbacks of onConnect
    inflight,               \* bag of RPC requests awaiting their response
    issuedNow,              \* RPC requests issued by the last step, in order
    emittedNow,             \* updates dispatched by the last step, in order
    escapedNow,             \* rejections the last step left unhandled, by RPC method
    wireNow,                \* numeric fields of the result the last step received
    payloadNow,             \* numeric fields of the update the last step dispatched
    rpcCount,               \* number of requests issued so far, per kind
    lastOp,                 \* the last step taken
    stops,                  \* number of stop() calls so far
    inputs                  \* number of external inputs so far

vars == <<gethRunning, peerCountInterval, intervals, nextInterval, listeners,
          subListeners, syncingSubscriptionId, newHeadsSubscriptionId, subs,
          unsubscribed, settle, inflight, issuedNow, emittedNow, escapedNow,
          wireNow, payloadNow, rpcCount, lastOp, stops, inputs>>

----------------------------------------------------------------------------
\* The collaborator's lifecycle event names (createListeners).
LifecycleEvents ==
    {"starting", "started", "connect", "stopping", "stopped", "disconnect", "error"}

\* The action each lifecycle handler dispatches (onStarting .. onError).
UpdateFor(ev) ==
    CASE ev = "starting"   -> "gethStarting"
      [] ev = "started"    -> "gethStarted"
      [] ev = "connect"    -> "gethConnected"
      [] ev = "stopping"   -> "gethStopping"
      [] ev = "stopped"    -> "gethStopped"
      [] ev = "disconnect" -> "gethDisconnected"
      [] ev = "error"      -> "gethError"

\* An RPC request: geth.rpc(method, [feed]) or geth.rpc(method, [id]).
Rpc(method, feed, id) == [method |-> method, feed |-> feed, id |-> id]

\* An in-flight request.  origin is the code path that issued it, conn the
\* value of stops when the connect event (or input) that led to it arrived,
\* at the value of stops when the request itself was issued.
Req(method, feed, origin, conn, at) ==
    [method |-> method, feed |-> feed, origin |-> origin, conn |-> conn, at |-> at]

\* A step record.
Op(name, tok, val, conn, at) ==
    [name |-> name, tok |-> tok, val |-> val, conn |-> conn, at |-> at]

\* Function identities.  A listener registered by geth.on(..., () => ...) is
\* an arrow closure created at the call (n numbers the registering call);
\* this.onStarting etc. are the methods of the class.
Closure(n) == [fn |-> "closure", n |-> n]
Method == [fn |-> "method", n |-> 0]

\* EventEmitter.on / removeListener on lifecycle events: removal is by
\* function identity.
On(L, ev, f) == L \cup {[ev |-> ev, fn |-> f.fn, n |-> f.n]}
RemoveListener(L, ev, f) == L \ {[ev |-> ev, fn |-> f.fn, n |-> f.n]}

\* The same emitter, for listeners keyed by a subscription id.
OnSub(L, tok, f, kind) ==
    L \cup {[tok |-> tok, fn |-> f.fn, n |-> f.n, kind |-> kind]}
RemoveSubListener(L, tok, f, kind) ==
    L \ {[tok |-> tok, fn |-> f.fn, n |-> f.n, kind |-> kind]}

\* createListeners: geth.on(ev, () => this.onXxx(dispatch)) for each
\* lifecycle event, the closures being those of call n.
CreateListeners(L, n) ==
    UNION {On(L, ev, Closure(n)) : ev \in LifecycleEvents}

\* removeListeners: geth.removeListener(ev, this.onXxx) for each lifecycle
\* event.
RemoveListeners(L) ==
    {l \in L : \A ev \in LifecycleEvents : l \in RemoveListener(L, ev, Method)}

\* The listeners geth calls when it emits ev.
ListenersOf(ev) == {l \in listeners : l.ev = ev}
SubListenersOf(tok) == {l \in subListeners : l.tok = tok}

\* n copies of x as a sequence / as a bag.
Repeat(x, n) == [i \in 1..n |-> x]
Copies(x, n) == IF n = 0 THEN EmptyBag ELSE [e \in {x} |-> n]

\* unsubscribeXxxSubscription without its early return on an unset id.
UnsubscribeRpcsUnguarded(id) == <<Rpc("eth_unsubscribe", "", id)>>

\* The RPC issued by unsubscribeSyncingSubscription /
\* unsubscribeNewHeadsSubscription for the stored id: none when it is unset.
UnsubscribeRpcs(id) ==
    IF id = Null THEN <<>> ELSE <<Rpc("eth_unsubscribe", "", id)>>

\* The geth.removeListener(id, this.onXxxSubscriptionResult) of the same two
\* methods, after their early return.
UnsubscribeListener(L, id, kind) ==
    IF id = Null THEN L ELSE RemoveSubListener(L, id, Method, kind)

\* onSyncingSubscriptionResult(false) with its two calls exchanged.
HandoffRpcsUnsubscribeFirst(id) ==
    UnsubscribeRpcs(id) \o <<Rpc("eth_subscribe", "newHeads", Null)>>

\* The requests onSyncingSubscriptionResult(false) issues, in order:
\* startNewHeadsSubscription, then unsubscribeSyncingSubscription.
HandoffRpcs(id) ==
    <<Rpc("eth_subscribe", "newHeads", Null)>> \o UnsubscribeRpcs(id)

\* The ids those requests name.
UnsubscribedBy(id) == IF id = Null THEN {} ELSE {id}

\* The in-flight eth_unsubscribe of unsubscribeXxxSubscription: its promise
\* is neither awaited nor given a handler.
UnsubscribeReqs(id, origin, at) ==
    IF id = Null THEN EmptyBag
    ELSE SetToBag({Req("eth_unsubscribe", "", origin, at, at)})

\* unsubscribeXxxSubscription forgetting to reset the stored id.
KeptId(id) == id

\* The stored id after unsubscribeXxxSubscription: null (unset stays unset).
ClearedId(id) == Null

\* startSubscriptions with its test inverted.
DetectFeedInverted(result) == IF result = "false" THEN "syncing" ELSE "newHeads"

\* The feed startSubscriptions subscribes to for a result of eth_syncing.
DetectFeed(result) == IF result = "false" THEN "newHeads" ELSE "syncing"

\* rpcCount after issuing the requests of sequence s.
RpcKind(r) == IF r.feed = "" THEN r.method ELSE r.feed
RpcKinds ==
    {"eth_syncing", "eth_getBlockByNumber", "newHeads", "syncing",
     "eth_unsubscribe", "net_peerCount"}
Counted(c, s) ==
    [k \in RpcKinds |-> c[k] + Cardinality({i \in 1..Len(s) : RpcKind(s[i]) = k})]

----------------------------------------------------------------------------
\* Values on the wire and in dispatched payloads.  A JavaScript string is
\* the sequence of its characters, a number its value.
Str(chars) == [t |-> "string", s |-> chars, n |-> 0]
Num(n) == [t |-> "number", s |-> <<>>, n |-> n]
NaN == [t |-> "NaN", s |-> <<>>, n |-> 0]

\* The digits of base 16 (those of base 10 are the first ten).
HexChars ==
    <<"0", "1", "2", "3", "4", "5", "6", "7", "8", "9", "a", "b", "c", "d", "e", "f">>
DigitValue(c) == CHOOSE i \in 0..15 : HexChars[i + 1] = c
IsDigits(chars, base) ==
    /\ chars # <<>>
    /\ \A i \in 1..Len(chars) : \E d \in 0..(base - 1) : HexChars[d + 1] = chars[i]

\* The value of a digit sequence in a base, most significant digit first.
RECURSIVE DigitsValue(_, _)
DigitsValue(chars, base) ==
    IF chars = <<>> THEN 0
    ELSE DigitsValue(SubSeq(chars, 1, Len(chars) - 1), base) * base
           + DigitValue(chars[Len(chars)])

\* The digits of n in a base, without leading zeros.
RECURSIVE DigitsOf(_, _)
DigitsOf(n, base) ==
    IF n < base THEN <<HexChars[n + 1]>>
    ELSE DigitsOf(n \div base, base) \o <<HexChars[(n % base) + 1]>>

\* The node's encoding of a quantity: "0x" and its hexadecimal digits.
HexString(n) == Str(<<"0", "x">> \o DigitsOf(n, 16))

\* const isHex = str => typeof str === 'string' && str.startsWith('0x')
isHex(v) ==
    /\ v.t = "string"
    /\ Len(v.s) >= 2
    /\ v.s[1] = "0"
    /\ v.s[2] = "x"

\* hexToNumberString with the digits read in base 10.
hexToNumberStringBase10(v) ==
    LET digits == SubSeq(v.s, 3, Len(v.s)) IN
      IF IsDigits(digits, 16)
        THEN Str(DigitsOf(DigitsValue(digits, 10), 10))
        ELSE Str(<<"N", "a", "N">>)

\* const hexToNumberString = str => new BigNumber(str).toString(10)
\* (bignumber.js reads a "0x" string in base 16, exactly, and toString(10)
\* writes plain decimal digits; a string it cannot read gives "NaN").
hexToNumberString(v) ==
    LET digits == SubSeq(v.s, 3, Len(v.s)) IN
      IF IsDigits(digits, 16)
        THEN Str(DigitsOf(DigitsValue(digits, 16), 10))
        ELSE Str(<<"N", "a", "N">>)

\* toNumberString returning its argument as it is.
toNumberStringIdentity(v) == v

\* const toNumberString = str => (isHex(str) ? hexToNumberString(str) : str)
toNumberString(v) == IF isHex(v) THEN hexToNumberString(v) ELSE v

\* Number(x): a number is itself, a string of decimal digits or a "0x"
\* string of hexadecimal digits is its value, any other string is NaN.
NumberOf(v) ==
    IF v.t = "number" THEN v
    ELSE IF v.t = "string" /\ IsDigits(v.s, 10) THEN Num(DigitsValue(v.s, 10))
    ELSE IF isHex(v) /\ IsDigits(SubSeq(v.s, 3, Len(v.s)), 16)
      THEN Num(DigitsValue(SubSeq(v.s, 3, Len(v.s)), 16))
    ELSE NaN

\* Largest quantity the node reports in the model.
MaxQuantity == 17

\* Results of net_peerCount: hexadecimal quantities, and values that are not
\* "0x" strings (a number, a decimal string).
PeerCountResults ==
    {HexString(n) : n \in 0..MaxQuantity} \cup {Num(3), Str(<<"1", "2">>)}

\* Block headers (newHeads notification, eth_getBlockByNumber): number and
\* timestamp as the node encodes them, or already numeric.
BlockHeaders ==
    {[number |-> HexString(n), timestamp |-> HexString(n + 1)] : n \in {0, MaxQuantity}}
      \cup {[number |-> Num(5), timestamp |-> Num(7)]}

\* status objects of a syncing notification, with numeric fields and with
\* "0x" string fields.
StatusPayloads ==
    {[StartingBlock |-> Num(100), CurrentBlock |-> Num(150), HighestBlock |-> Num(200),
      KnownStates |-> Num(10), PulledStates |-> Num(5)],
     [StartingBlock |-> HexString(100), CurrentBlock |-> HexString(150),
      HighestBlock |-> HexString(200), KnownStates |-> HexString(10),
      PulledStates |-> HexString(5)]}

\* The numeric fields read from a header / a status, in the order used below.
HeaderFields(h) == <<h.number, h.timestamp>>
StatusFields(st) ==
    <<st.StartingBlock, st.CurrentBlock, st.HighestBlock, st.KnownStates, st.PulledStates>>

\* newBlock dispatched with the header fields as received.
BlockHeaderRaw(h) == <<h.number, h.timestamp>>

\* newBlock({ blockNumber, timestamp }): Number(toNumberString(field)).
BlockHeaderOf(h) ==
    <<NumberOf(toNumberString(h.number)), NumberOf(toNumberString(h.timestamp))>>

\* updateSyncing with startingBlock and currentBlock exchanged.
SyncProgressSwapped(st) ==
    <<st.CurrentBlock, st.StartingBlock, st.HighestBlock, st.KnownStates, st.PulledStates>>

\* updateSyncing({ startingBlock, currentBlock, highestBlock, knownStates,
\* pulledStates }): the fields of status as received.
SyncProgressOf(st) ==
    <<st.StartingBlock, st.CurrentBlock, st.HighestBlock, st.KnownStates, st.PulledStates>>

----------------------------------------------------------------------------
Init ==
    /\ gethRunning = FALSE
    /\ peerCountInterval = Null
    /\ intervals = {}
    /\ nextInterval = 1
    /\ listeners = {}
    /\ subListeners = {}
    /\ syncingSubscriptionId = Null
    /\ newHeadsSubscriptionId = Null
    /\ subs = <<>>
    /\ unsubscribed = {}
    /\ settle = EmptyBag
    /\ inflight = EmptyBag
    /\ issuedNow = <<>>
    /\ emittedNow = <<>>
    /\ escapedNow = <<>>
    /\ wireNow = <<>>
    /\ payloadNow = <<>>
    /\ rpcCount = [k \in RpcKinds |-> 0]
    /\ lastOp = Op("init", Null, "", 0, 0)
    /\ stops = 0
    /\ inputs = 0

\* start(config, dispatch)
Start ==
    /\ inputs < MaxInputs
    /\ inputs' = inputs + 1
    /\ gethRunning' = TRUE
    /\ emittedNow' = <<"updateNetwork", "updateSyncMode">>
    /\ peerCountInterval' = nextInterval
    /\ intervals' = intervals \cup {nextInterval}
    /\ nextInterval' = nextInterval + 1
    /\ listeners' = CreateListeners(listeners, nextInterval)
    /\ issuedNow' = <<>>
    /\ escapedNow' = <<>>
    /\ wireNow' = <<>>
    /\ payloadNow' = <<>>
    /\ lastOp' = Op("start", Null, "", stops, stops)
    /\ UNCHANGED <<subListeners, syncingSubscriptionId, newHeadsSubscriptionId,
                   subs, unsubscribed, settle, inflight, rpcCount, stops>>

\* stop()
Stop ==
    /\ inputs < MaxInputs
    /\ inputs' = inputs + 1
    /\ gethRunning' = FALSE
    /\ intervals' = intervals \ {peerCountInterval}
    /\ issuedNow' = UnsubscribeRpcs(syncingSubscriptionId)
                      \o UnsubscribeRpcs(newHeadsSubscriptionId)
    /\ inflight' = inflight
                     (+) UnsubscribeReqs(syncingSubscriptionId, "stop", stops)
                     (+) UnsubscribeReqs(newHeadsSubscriptionId, "stop", stops)
    /\ unsubscribed' = unsubscribed \cup UnsubscribedBy(syncingSubscriptionId)
                         \cup UnsubscribedBy(newHeadsSubscriptionId)
    /\ subListeners' =
         UnsubscribeListener(
           UnsubscribeListener(subListeners, syncingSubscriptionId, "syncing"),
           newHeadsSubscriptionId, "newHeads")
    /\ syncingSubscriptionId' = ClearedId(syncingSubscriptionId)
    /\ newHeadsSubscriptionId' = ClearedId(newHeadsSubscriptionId)
    /\ listeners' = RemoveListeners(listeners)
    /\ rpcCount' = Counted(rpcCount, issuedNow')
    /\ emittedNow' = <<>>
    /\ escapedNow' = <<>>
    /\ wireNow' = <<>>
    /\ payloadNow' = <<>>
    /\ stops' = stops + 1
    /\ lastOp' = Op("stop", Null, IF lastOp.name = "stop" THEN "again" ELSE "first",
                     stops, stops)
    /\ UNCHANGED <<peerCountInterval, nextInterval, subs, settle>>

\* The collaborator emits lifecycle event ev: every listener registered for
\* it runs (onStarting .. onError; onConnect also sets the settle timeout).
EmitLifecycle(ev) ==
    /\ inputs < MaxInputs
    /\ inputs' = inputs + 1
    /\ LET k == Cardinality(ListenersOf(ev)) IN
         /\ emittedNow' = Repeat(UpdateFor(ev), k)
         /\ settle' = IF ev = "connect"
                        THEN settle (+) Copies([conn |-> stops], k)
                        ELSE settle
    /\ issuedNow' = <<>>
    /\ escapedNow' = <<>>
    /\ wireNow' = <<>>
    /\ payloadNow' = <<>>
    /\ lastOp' = Op("emit", Null, ev, stops, stops)
    /\ UNCHANGED <<gethRunning, peerCountInterval, intervals, nextInterval,
                   listeners, subListeners, syncingSubscriptionId,
                   newHeadsSubscriptionId, subs, unsubscribed, inflight,
                   rpcCount, stops>>

\* The 2000 ms timeout of onConnect fires: setLastBlock(), startSubscriptions().
SettleFire(s) ==
    /\ BagIn(s, settle)
    /\ settle' = settle (-) SetToBag({s})
    /\ issuedNow' = <<Rpc("eth_getBlockByNumber", "", Null),
                      Rpc("eth_syncing", "", Null)>>
    /\ inflight' = inflight
                     (+) SetToBag({Req("eth_getBlockByNumber", "", "connect", s.conn, stops)})
                     (+) SetToBag({Req("eth_syncing", "", "connect", s.conn, stops)})
    /\ rpcCount' = Counted(rpcCount, issuedNow')
    /\ emittedNow' = <<>>
    /\ escapedNow' = <<>>
    /\ wireNow' = <<>>
    /\ payloadNow' = <<>>
    /\ lastOp' = Op("settle", Null, "", s.conn, stops)
    /\ UNCHANGED <<gethRunning, peerCountInterval, intervals, nextInterval,
                   listeners, subListeners, syncingSubscriptionId,
                   newHeadsSubscriptionId, subs, unsubscribed, stops, inputs>>

\* The results of eth_syncing the code tells apart: false, or anything else.
SyncingResults == {"false", "syncing"}

\* startSubscriptions resumes with the result of eth_syncing.
SyncingResponse(r, result) ==
    /\ BagIn(r, inflight)
    /\ r.method = "eth_syncing"
    /\ LET feed == DetectFeed(result) IN
         /\ issuedNow' = <<Rpc("eth_subscribe", feed, Null)>>
         /\ inflight' = (inflight (-) SetToBag({r}))
                          (+) SetToBag({Req("eth_subscribe", feed, "detect", r.conn, stops)})
    /\ rpcCount' = Counted(rpcCount, issuedNow')
    /\ emittedNow' = <<>>
    /\ escapedNow' = <<>>
    /\ wireNow' = <<>>
    /\ payloadNow' = <<>>
    /\ lastOp' = Op("syncingResponse", Null, result, r.conn, r.at)
    /\ UNCHANGED <<gethRunning, peerCountInterval, intervals, nextInterval,
                   listeners, subListeners, syncingSubscriptionId,
                   newHeadsSubscriptionId, subs, unsubscribed, settle, stops,
                   inputs>>

\* The then-callback of setLastBlock.
GetBlockResponse(r) ==
    /\ BagIn(r, inflight)
    /\ r.method = "eth_getBlockByNumber"
    /\ inflight' = inflight (-) SetToBag({r})
    /\ emittedNow' = <<"newBlock">>
    /\ \E h \in BlockHeaders :
         /\ wireNow' = HeaderFields(h)
         /\ payloadNow' = BlockHeaderOf(h)
    /\ issuedNow' = <<>>
    /\ escapedNow' = <<>>
    /\ lastOp' = Op("getBlockResponse", Null, "", r.conn, r.at)
    /\ UNCHANGED <<gethRunning, peerCountInterval, intervals, nextInterval,
                   listeners, subListeners, syncingSubscriptionId,
                   newHeadsSubscriptionId, subs, unsubscribed, settle,
                   rpcCount, stops, inputs>>

\* The then-callback of startNewHeadsSubscription: the node returned a new
\* subscription id.
SubscribeNewHeadsResponse(r) ==
    /\ BagIn(r, inflight)
    /\ r.method = "eth_subscribe" /\ r.feed = "newHeads"
    /\ inflight' = inflight (-) SetToBag({r})
    /\ LET id == Len(subs) + 1 IN
         /\ subs' = Append(subs, "newHeads")
         /\ newHeadsSubscriptionId' = id
         /\ subListeners' = OnSub(subListeners, id, Closure(id), "newHeads")
         /\ lastOp' = Op("subscribeNewHeadsResponse", id, r.origin, r.conn, r.at)
    /\ issuedNow' = <<>>
    /\ emittedNow' = <<>>
    /\ escapedNow' = <<>>
    /\ wireNow' = <<>>
    /\ payloadNow' = <<>>
    /\ UNCHANGED <<gethRunning, peerCountInterval, intervals, nextInterval,
                   listeners, syncingSubscriptionId, unsubscribed, settle,
                   rpcCount, stops, inputs>>

\* startSyncingSubscription resumes after its await.
SubscribeSyncingResponse(r) ==
    /\ BagIn(r, inflight)
    /\ r.method = "eth_subscribe" /\ r.feed = "syncing"
    /\ inflight' = inflight (-) SetToBag({r})
    /\ LET id == Len(subs) + 1 IN
         /\ subs' = Append(subs, "syncing")
         /\ syncingSubscriptionId' = id
         /\ subListeners' = OnSub(subListeners, id, Closure(id), "syncing")
         /\ lastOp' = Op("subscribeSyncingResponse", id, r.origin, r.conn, r.at)
    /\ issuedNow' = <<>>
    /\ emittedNow' = <<>>
    /\ escapedNow' = <<>>
    /\ wireNow' = <<>>
    /\ payloadNow' = <<>>
    /\ UNCHANGED <<gethRunning, peerCountInterval, intervals, nextInterval,
                   listeners, newHeadsSubscriptionId, unsubscribed, settle,
                   rpcCount, stops, inputs>>

\* An interval timer that was not cleared ticks: updatePeerCount up to its await.
Tick(t) ==
    /\ inputs < MaxInputs
    /\ inputs' = inputs + 1
    /\ t \in intervals
    /\ issuedNow' = <<Rpc("net_peerCount", "", Null)>>
    /\ inflight' = inflight (+) SetToBag({Req("net_peerCount", "", "tick", stops, stops)})
    /\ rpcCount' = Counted(rpcCount, issuedNow')
    /\ emittedNow' = <<>>
    /\ escapedNow' = <<>>
    /\ wireNow' = <<>>
    /\ payloadNow' = <<>>
    /\ lastOp' = Op("tick", t, "", stops, stops)
    /\ UNCHANGED <<gethRunning, peerCountInterval, intervals, nextInterval,
                   listeners, subListeners, syncingSubscriptionId,
                   newHeadsSubscriptionId, subs, unsubscribed, settle, stops>>

\* updatePeerCount resumes after its await with the result of net_peerCount.
PeerCountResponse(r) ==
    /\ BagIn(r, inflight)
    /\ r.method = "net_peerCount"
    /\ inflight' = inflight (-) SetToBag({r})
    /\ emittedNow' = <<"updatePeerCount">>
    /\ \E hexPeerCount \in PeerCountResults :
         /\ wireNow' = <<hexPeerCount>>
         /\ payloadNow' = <<toNumberString(hexPeerCount)>>
    /\ issuedNow' = <<>>
    /\ escapedNow' = <<>>
    /\ lastOp' = Op("peerCountResponse", Null, "", r.conn, r.at)
    /\ UNCHANGED <<gethRunning, peerCountInterval, intervals, nextInterval,
                   listeners, subListeners, syncingSubscriptionId,
                   newHeadsSubscriptionId, subs, unsubscribed, settle,
                   rpcCount, stops, inputs>>

\* The node answers an eth_unsubscribe: the promise was dropped by the
\* caller, nothing runs.
UnsubscribeResponse(r) ==
    /\ BagIn(r, inflight)
    /\ r.method = "eth_unsubscribe"
    /\ inflight' = inflight (-) SetToBag({r})
    /\ issuedNow' = <<>>
    /\ emittedNow' = <<>>
    /\ escapedNow' = <<>>
    /\ wireNow' = <<>>
    /\ payloadNow' = <<>>
    /\ lastOp' = Op("unsubscribeResponse", Null, r.origin, r.conn, r.at)
    /\ UNCHANGED <<gethRunning, peerCountInterval, intervals, nextInterval,
                   listeners, subListeners, syncingSubscriptionId,
                   newHeadsSubscriptionId, subs, unsubscribed, settle,
                   rpcCount, stops, inputs>>

\* An RPC fails: its promise is rejected.  No caller has a catch or a
\* rejection handler, so the continuation does not run and the rejection is
\* left unhandled.
RpcFailure(r) ==
    /\ BagIn(r, inflight)
    /\ inflight' = inflight (-) SetToBag({r})
    /\ issuedNow' = <<>>
    /\ emittedNow' = <<>>
    /\ escapedNow' = <<r.method>>
    /\ wireNow' = <<>>
    /\ payloadNow' = <<>>
    /\ lastOp' = Op("rpcFailure", Null, r.method, r.conn, r.at)
    /\ UNCHANGED <<gethRunning, peerCountInterval, intervals, nextInterval,
                   listeners, subListeners, syncingSubscriptionId,
                   newHeadsSubscriptionId, subs, unsubscribed, settle,
                   rpcCount, stops, inputs>>

\* The values a syncing notification carries, as onSyncingSubscriptionResult
\* tells them apart: false, true, or a status object.
SyncFeedResults == {"false", "true", "status"}

\* The collaborator emits a notification on subscription id t of the syncing
\* feed: the listener registered for t, if any, runs
\* onSyncingSubscriptionResult(result).
SyncFeedEvent(t, result) ==
    /\ inputs < MaxInputs
    /\ inputs' = inputs + 1
    /\ t \in 1..Len(subs)
    /\ subs[t] = "syncing"
    /\ lastOp' = Op("syncFeedEvent", t, result, stops, stops)
    /\ IF SubListenersOf(t) = {} \/ result = "true"
         THEN /\ issuedNow' = <<>>
              /\ emittedNow' = <<>>
              /\ wireNow' = <<>>
              /\ payloadNow' = <<>>
              /\ UNCHANGED <<syncingSubscriptionId, subListeners, unsubscribed,
                             inflight>>
         ELSE IF result = "false"
         THEN /\ issuedNow' = HandoffRpcs(syncingSubscriptionId)
              /\ inflight' = inflight
                   (+) SetToBag({Req("eth_subscribe", "newHeads", "handoff", stops, stops)})
                   (+) UnsubscribeReqs(syncingSubscriptionId, "handoff", stops)
              /\ unsubscribed' = unsubscribed \cup UnsubscribedBy(syncingSubscriptionId)
              /\ subListeners' =
                   UnsubscribeListener(subListeners, syncingSubscriptionId, "syncing")
              /\ syncingSubscriptionId' = ClearedId(syncingSubscriptionId)
              /\ emittedNow' = <<>>
              /\ wireNow' = <<>>
              /\ payloadNow' = <<>>
         ELSE /\ issuedNow' = <<>>
              /\ emittedNow' = <<"updateSyncing">>
              /\ \E st \in StatusPayloads :
                   /\ wireNow' = StatusFields(st)
                   /\ payloadNow' = SyncProgressOf(st)
              /\ UNCHANGED <<syncingSubscriptionId, subListeners, unsubscribed,
                             inflight>>
    /\ escapedNow' = <<>>
    /\ rpcCount' = Counted(rpcCount, issuedNow')
    /\ UNCHANGED <<gethRunning, peerCountInterval, intervals, nextInterval,
                   listeners, newHeadsSubscriptionId, subs, settle, stops>>

\* The values a newHeads notification carries, as onNewHeadsSubscriptionResult
\* tells them apart: with a result (a header) or without one.
HeadFeedResults == {"header", "empty"}

\* The collaborator emits a notification on subscription id t of the
\* newHeads feed: the listener registered for t, if any, runs
\* onNewHeadsSubscriptionResult(result).
HeadFeedEvent(t, result) ==
    /\ inputs < MaxInputs
    /\ inputs' = inputs + 1
    /\ t \in 1..Len(subs)
    /\ subs[t] = "newHeads"
    /\ IF SubListenersOf(t) = {} \/ result = "empty"
         THEN /\ emittedNow' = <<>>
              /\ wireNow' = <<>>
              /\ payloadNow' = <<>>
         ELSE /\ emittedNow' = <<"newBlock">>
              /\ \E h \in BlockHeaders :
                   /\ wireNow' = HeaderFields(h)
                   /\ payloadNow' = BlockHeaderOf(h)
    /\ issuedNow' = <<>>
    /\ escapedNow' = <<>>
    /\ lastOp' = Op("headFeedEvent", t, result, stops, stops)
    /\ UNCHANGED <<gethRunning, peerCountInterval, intervals, nextInterval,
                   listeners, subListeners, syncingSubscriptionId,
                   newHeadsSubscriptionId, subs, unsubscribed, settle,
                   inflight, rpcCount, stops>>

Next ==
    \/ Start
    \/ Stop
    \/ \E ev \in LifecycleEvents : EmitLifecycle(ev)
    \/ \E s \in BagToSet(settle) : SettleFire(s)
    \/ \E r \in BagToSet(inflight), result \in SyncingResults : SyncingResponse(r, result)
    \/ \E r \in BagToSet(inflight) : GetBlockResponse(r)
    \/ \E r \in BagToSet(inflight) : SubscribeNewHeadsResponse(r)
    \/ \E r \in BagToSet(inflight) : SubscribeSyncingResponse(r)
    \/ \E t \in intervals : Tick(t)
    \/ \E r \in BagToSet(inflight) : PeerCountResponse(r)
    \/ \E r \in BagToSet(inflight) : UnsubscribeResponse(r)
    \/ \E r \in BagToSet(inflight) : RpcFailure(r)
    \/ \E t \in 1..Len(subs), result \in SyncFeedResults : SyncFeedEvent(t, result)
    \/ \E t \in 1..Len(subs), result \in HeadFeedResults : HeadFeedEvent(t, result)

Spec == Init /\ [][Next]_vars

----------------------------------------------------------------------------
\* Properties.

FeedEventNames == {"syncFeedEvent", "headFeedEvent"}
SubscribeResponseNames == {"subscribeNewHeadsResponse", "subscribeSyncingResponse"}
Handles == <<syncingSubscriptionId, newHeadsSubscriptionId>>

\* C1: the syncing feed and the newHeads feed are never both subscribed.
\* The handoff is one step of the model, so its exception needs no clause;
\* runs with a single start() are enough to decide the claim.
C1_NeverBothSubscribed ==
    nextInterval <= 2
      => ~(syncingSubscriptionId # Null /\ newHeadsSubscriptionId # Null)

\* C2: a feed notification delivered, after stop() has run, on a subscription
\* id that was unsubscribed dispatches nothing, issues no RPC and changes
\* neither subscription id.
C2_StaleResultInert ==
    [][(/\ lastOp'.name \in FeedEventNames
        /\ ~gethRunning
        /\ lastOp'.tok \in unsubscribed)
       => (/\ emittedNow' = <<>>
           /\ issuedNow' = <<>>
           /\ Handles' = Handles)]_vars

\* C3: the response to an eth_subscribe request that was in flight when
\* stop() ran stores no subscription id and registers no feed listener.
C3_LateSubscribeResponseDropped ==
    [][(/\ lastOp'.name \in SubscribeResponseNames
        /\ lastOp'.at < stops)
       => (/\ Handles' = Handles
           /\ subListeners' = subListeners)]_vars

\* C4: after stop() has run (and until the next start()), a lifecycle event
\* of the collaborator dispatches nothing and schedules no detection.
C4_ListenersRemovedByStop ==
    [][(/\ lastOp'.name = "emit"
        /\ stops > 0
        /\ ~gethRunning)
       => (/\ emittedNow' = <<>>
           /\ settle' = settle)]_vars

\* C5: with one connect whose detection subscribed the syncing feed, once a
\* notification false has been delivered (once or several times) exactly one
\* eth_subscribe(newHeads) has been issued, the syncing id is cleared and,
\* when the request has been answered, the newHeads id is held.
C5_OneHandoff ==
    (/\ stops = 0
     /\ rpcCount["eth_syncing"] = 1
     /\ rpcCount["syncing"] = 1
     /\ rpcCount["newHeads"] >= 1)
    => (/\ rpcCount["newHeads"] = 1
        /\ syncingSubscriptionId = Null
        /\ (inflight = EmptyBag => newHeadsSubscriptionId # Null))

\* C6: right after the syncing feed delivered false while its id was held
\* (so that the step issued the eth_unsubscribe), one of the two subscription
\* ids is held.
C6_NoZeroFeedWindow ==
    (/\ lastOp.name = "syncFeedEvent"
     /\ lastOp.val = "false"
     /\ \E i \in 1..Len(issuedNow) : issuedNow[i].method = "eth_unsubscribe")
    => (syncingSubscriptionId # Null \/ newHeadsSubscriptionId # Null)

\* C7: when the syncing feed whose id is held delivers false, the step issues
\* exactly eth_subscribe(["newHeads"]) and then eth_unsubscribe([that id]) and
\* clears the syncing id; when the response to that eth_subscribe arrives
\* the newHeads id is set to the id returned.
C7_HandoffOrder ==
    [][/\ (/\ lastOp'.name = "syncFeedEvent"
           /\ lastOp'.val = "false"
           /\ syncingSubscriptionId # Null
           /\ lastOp'.tok = syncingSubscriptionId)
          => (/\ issuedNow' = <<Rpc("eth_subscribe", "newHeads", Null),
                                Rpc("eth_unsubscribe", "", syncingSubscriptionId)>>
              /\ syncingSubscriptionId' = Null)
       /\ (/\ lastOp'.name = "subscribeNewHeadsResponse"
           /\ lastOp'.val = "handoff")
          => (/\ newHeadsSubscriptionId' = lastOp'.tok
              /\ newHeadsSubscriptionId' # Null
              /\ syncingSubscriptionId' = syncingSubscriptionId)]_vars

\* C7 witness: a handoff that started from the held syncing id has completed.
C7_Witness ==
    /\ lastOp.name = "subscribeNewHeadsResponse"
    /\ lastOp.val = "handoff"
    /\ newHeadsSubscriptionId = lastOp.tok
    /\ syncingSubscriptionId = Null
    /\ rpcCount["eth_unsubscribe"] = 1
    /\ stops = 0

\* C8: after stop() and until the next start(), no interval tick issues a
\* net_peerCount query.
C8_StopCancelsPoller ==
    (lastOp.name = "tick" /\ stops > 0) => gethRunning

\* C9: a stop() that directly follows a stop(), or that runs when start() was
\* never called, issues no request (no eth_unsubscribe in particular) and
\* leaves both subscription ids unset.
C9_StopIdempotent ==
    [][(/\ lastOp'.name = "stop"
        /\ (lastOp'.val = "again" \/ nextInterval = 1))
       => (/\ issuedNow' = <<>>
           /\ rpcCount' = rpcCount
           /\ unsubscribed' = unsubscribed
           /\ syncingSubscriptionId' = Null
           /\ newHeadsSubscriptionId' = Null)]_vars

\* C9 witness: a second stop() in succession, after an eth_unsubscribe had
\* been issued.
C9_Witness ==
    /\ lastOp.name = "stop"
    /\ lastOp.val = "again"
    /\ unsubscribed # {}
    /\ issuedNow = <<>>

\* C10: the follow-up work of a connect that arrived before a stop() issues
\* no eth_subscribe and dispatches no block header once that stop() has run.
C10_StopCancelsConnectFollowUp ==
    /\ (lastOp.name = "syncingResponse" /\ lastOp.conn < stops)
         => \A i \in 1..Len(issuedNow) : issuedNow[i].method # "eth_subscribe"
    /\ (lastOp.name = "getBlockResponse" /\ lastOp.conn < stops)
         => emittedNow = <<>>

\* C11: while the service is started, a lifecycle event of the collaborator
\* dispatches exactly one update, the one of its kind.
C11_OneUpdatePerEvent ==
    (lastOp.name = "emit" /\ gethRunning)
      => emittedNow = <<UpdateFor(lastOp.val)>>

\* C12: the detection step issues exactly one request, eth_subscribe of
\* newHeads when eth_syncing answered false and of syncing for any other
\* answer, and that request is in flight.
C12_DetectSubscribesOnce ==
    lastOp.name = "syncingResponse"
      => (/\ issuedNow =
               <<Rpc("eth_subscribe",
                     IF lastOp.val = "false" THEN "newHeads" ELSE "syncing", Null)>>
          /\ \E r \in BagToSet(inflight) :
               /\ r.method = "eth_subscribe"
               /\ r.origin = "detect"
               /\ r.feed = issuedNow[1].feed)

\* C12 witness (scenario A): one detection, answered false, has issued one
\* eth_subscribe(newHeads) and no eth_subscribe(syncing).
C12_Witness ==
    /\ lastOp.name = "syncingResponse"
    /\ lastOp.val = "false"
    /\ rpcCount["eth_syncing"] = 1
    /\ rpcCount["newHeads"] = 1
    /\ rpcCount["syncing"] = 0

\* C13: a failed net_peerCount is caught (no rejection is left unhandled),
\* dispatches no update and leaves the interval timers running.
C13_PollFailureCaught ==
    [][(lastOp'.name = "rpcFailure" /\ lastOp'.val = "net_peerCount")
       => (/\ escapedNow' = <<>>
           /\ emittedNow' = <<>>
           /\ intervals' = intervals)]_vars

\* C14: a notification on the held syncing id that carries true dispatches
\* nothing, issues no request and changes neither subscription id; one that
\* carries a status dispatches exactly one updateSyncing whose five fields
\* are StartingBlock, CurrentBlock, HighestBlock, KnownStates, PulledStates
\* of that status, issues no request and changes neither subscription id.
C14_SyncFeedFrame ==
    [][(/\ lastOp'.name = "syncFeedEvent"
        /\ syncingSubscriptionId # Null
        /\ lastOp'.tok = syncingSubscriptionId)
       => /\ lastOp'.val = "true"
             => (/\ emittedNow' = <<>>
                 /\ issuedNow' = <<>>
                 /\ Handles' = Handles)
          /\ lastOp'.val = "status"
             => (/\ emittedNow' = <<"updateSyncing">>
                 /\ \E st \in StatusPayloads :
                      /\ wireNow' = StatusFields(st)
                      /\ payloadNow' = <<st.StartingBlock, st.CurrentBlock,
                                         st.HighestBlock, st.KnownStates,
                                         st.PulledStates>>
                 /\ issuedNow' = <<>>
                 /\ Handles' = Handles)]_vars

\* C14 witness: a status was delivered on the held syncing id.
C14_Witness ==
    /\ lastOp.name = "syncFeedEvent"
    /\ lastOp.val = "status"
    /\ lastOp.tok = syncingSubscriptionId
    /\ emittedNow = <<"updateSyncing">>
    /\ Len(payloadNow) = 5
    /\ payloadNow[1] = Num(100)

\* p is the decimal value of the "0x" string w, as a number or as a string
\* of decimal digits.
IsDecimalOf(p, w) ==
    \E n \in 0..255 : w = HexString(n) /\ p \in {Num(n), Str(DigitsOf(n, 10))}

C16_ConnectThenSettle ==
    [][/\ (lastOp'.name = "emit" /\ lastOp'.val = "connect" /\ gethRunning)
          => (/\ emittedNow' = <<"gethConnected">>
              /\ issuedNow' = <<>>
              /\ BagCardinality(settle') = BagCardinality(settle) + 1)
       /\ lastOp'.name = "settle"
          => issuedNow' = <<Rpc("eth_getBlockByNumber", "", Null),
                            Rpc("eth_syncing", "", Null)>>]_vars

\* C17: stop() leaves both subscription ids unset and completes (process
\* stopped, its interval cleared), and neither the answer nor the failure
\* of an eth_unsubscribe changes the ids afterwards.
C17_UnsubscribeFailureHarmless ==
    [][/\ lastOp'.name = "stop"
          => (/\ syncingSubscriptionId' = Null
              /\ newHeadsSubscriptionId' = Null
              /\ gethRunning' = FALSE
              /\ peerCountInterval \notin intervals'
              /\ stops' = stops + 1)
       /\ (\/ lastOp'.name = "unsubscribeResponse"
           \/ (lastOp'.name = "rpcFailure" /\ lastOp'.val = "eth_unsubscribe"))
          => Handles' = Handles]_vars

\* C17 witness: the eth_unsubscribe issued by stop() for a held syncing id
\* has failed, and both ids are unset.
C17_Witness ==
    /\ lastOp.name = "rpcFailure"
    /\ lastOp.val = "eth_unsubscribe"
    /\ stops = 1
    /\ rpcCount["newHeads"] = 0
    /\ rpcCount["eth_unsubscribe"] = 1
    /\ Handles = <<Null, Null>>

\* C18: a tick issues exactly one net_peerCount; its result dispatches
\* exactly one updatePeerCount whose value is the decimal string of a "0x"
\* result ("0xa" gives "10") and the result itself otherwise.
C18_PeerCountUpdate ==
    /\ lastOp.name = "tick"
         => (issuedNow = <<Rpc("net_peerCount", "", Null)>> /\ emittedNow = <<>>)
    /\ lastOp.name = "peerCountResponse"
         => (/\ emittedNow = <<"updatePeerCount">>
             /\ issuedNow = <<>>
             /\ Len(payloadNow) = 1
             /\ wireNow = <<Str(<<"0", "x", "a">>)>>
                  => payloadNow = <<Str(<<"1", "0">>)>>
             /\ isHex(wireNow[1]) => IsDecimalOf(payloadNow[1], wireNow[1])
             /\ ~isHex(wireNow[1]) => payloadNow = wireNow)

\* C18 witness (scenario D): net_peerCount answered "0xa".
C18_Witness ==
    /\ lastOp.name = "peerCountResponse"
    /\ wireNow = <<Str(<<"0", "x", "a">>)>>
    /\ payloadNow = <<Str(<<"1", "0">>)>>

\* C19: wherever toNumberString was applied to the encoding "0x..." of a
\* quantity n, the result is the string of the decimal digits of n, which
\* reads back as n; applied to a value that is not a "0x" string, it returned
\* that value.
C19_NormalizerRoundTrip ==
    lastOp.name = "peerCountResponse"
      => /\ \A n \in 0..MaxQuantity :
              wireNow[1] = HexString(n)
                => (/\ payloadNow[1] = Str(DigitsOf(n, 10))
                    /\ NumberOf(payloadNow[1]) = Num(n))
         /\ (\A n \in 0..MaxQuantity : wireNow[1] # HexString(n))
              => payloadNow[1] = wireNow[1]

\* C19 witness: the largest quantity, of two hexadecimal digits, was decoded.
C19_Witness ==
    /\ lastOp.name = "peerCountResponse"
    /\ wireNow[1] = HexString(MaxQuantity)
    /\ Len(wireNow[1].s) = 4
    /\ NumberOf(payloadNow[1]) = Num(MaxQuantity)

\* C20: when no RPC is in flight, every subscription id the node returned
\* is one of the two ids held or has had an eth_unsubscribe issued for it
\* (runs with a single start() are enough to decide the claim).
C20_NoOrphanSubscription ==
    (nextInterval <= 2 /\ inflight = EmptyBag)
      => \A id \in 1..Len(subs) :
           \/ id = syncingSubscriptionId
           \/ id = newHeadsSubscriptionId
           \/ id \in unsubscribed
====
